---- MODULE Spec2Model ----
(***************************************************************************)
(* Model of server-core/src/win32/audio_manager_impl.cpp: the WASAPI       *)
(* loopback capture session (audio_manager::do_loopback_recording), the    *)
(* format negotiation (set_format) and the endpoint enumeration            *)
(* (audio_manager::get_endpoint_list, audio_manager::get_default_endpoint).*)
(* Every OS call is one step whose HRESULT is chosen by the environment;   *)
(* exit_on_failed ends the process.                                        *)
(***************************************************************************)
EXTENDS Integers, Sequences, FiniteSets, TLC

(***************************************************************************)
(* Bounds of the model.                                                    *)
(***************************************************************************)
MaxTicks == 3
MaxCalls == 2

(***************************************************************************)
(* Program constants.                                                      *)
(***************************************************************************)
WAVE_FORMAT_UNKNOWN == 0
WAVE_FORMAT_PCM == 1
WAVE_FORMAT_IEEE_FLOAT == 3
WAVE_FORMAT_EXTENSIBLE == 65534
REFTIMES_PER_MILLISEC == 10000
REFTIMES_PER_SEC == 10000000
NoIndex == -1
QuestionMark == 63
AsciiLimit == 128

KSDATAFORMAT_SUBTYPE_PCM == "KSDATAFORMAT_SUBTYPE_PCM"
KSDATAFORMAT_SUBTYPE_IEEE_FLOAT == "KSDATAFORMAT_SUBTYPE_IEEE_FLOAT"
KSDATAFORMAT_SUBTYPE_OTHER == "KSDATAFORMAT_SUBTYPE_OTHER"
NoSubFormat == "none"

AUDCLNT_STREAMFLAGS_LOOPBACK == "AUDCLNT_STREAMFLAGS_LOOPBACK"
AUDCLNT_STREAMFLAGS_EVENTCALLBACK == "AUDCLNT_STREAMFLAGS_EVENTCALLBACK"

(***************************************************************************)
(* Inputs the OS can hand to a session: plain PCM, plain float, a plain    *)
(* tag that is neither (2, ADPCM), and the three kinds of extensible       *)
(* format.                                                                 *)
(***************************************************************************)
WaveFormat(tag, sub, ch, rate, bits) ==
    [wFormatTag |-> tag, SubFormat |-> sub, nChannels |-> ch,
     nSamplesPerSec |-> rate, wBitsPerSample |-> bits,
     nBlockAlign |-> (ch * bits) \div 8]

NativeFormats ==
    { WaveFormat(WAVE_FORMAT_PCM, NoSubFormat, 2, 48000, 16),
      WaveFormat(WAVE_FORMAT_IEEE_FLOAT, NoSubFormat, 2, 44100, 32),
      WaveFormat(2, NoSubFormat, 1, 22050, 8),
      WaveFormat(WAVE_FORMAT_EXTENSIBLE, KSDATAFORMAT_SUBTYPE_PCM, 1, 44100, 16),
      WaveFormat(WAVE_FORMAT_EXTENSIBLE, KSDATAFORMAT_SUBTYPE_IEEE_FLOAT, 2, 48000, 32),
      WaveFormat(WAVE_FORMAT_EXTENSIBLE, KSDATAFORMAT_SUBTYPE_OTHER, 1, 96000, 32) }

NoFormat == WaveFormat(WAVE_FORMAT_UNKNOWN, NoSubFormat, 0, 0, 0)

PacketSizes == {0, 480, 960}

(***************************************************************************)
(* The minimum period of the device, in 100 ns units: 10 ms for the        *)
(* 48 kHz devices, 2.6667 ms for the others.                               *)
(***************************************************************************)
DevicePeriod(format) == IF format.nSamplesPerSec = 48000 THEN 100000 ELSE 26667

VARIABLES
    exited,          \* exit(-1) was called: the process is gone
    exit_message,    \* the message exit_on_failed logged
    pc,              \* position of do_loopback_recording
    _stoppped,       \* audio_manager::_stoppped, the stop flag
    mixFormat,       \* the mix format as GetMixFormat returned it
    pCaptureFormat,  \* the mix format buffer of the session
    _format,         \* audio_manager::_format, the published AudioFormat
    hnsMinimumDevicePeriod,
    duration,        \* tick interval in milliseconds
    expiry,          \* timer.expiry(), in ms since the loop start
    ticks,           \* timer waits performed by the session
    next_packet_size,
    numFramesAvailable,
    os_started,      \* IAudioClient is started (Start without Stop)
    os_held,         \* a capture buffer is acquired and not released
    resources,       \* COM objects and buffers the session holds
    trace,           \* the session's OS calls and sink invocations
    osRender,        \* the OS's active render devices, in enumeration order
    osCapture,       \* the OS's active capture devices
    osDefault,       \* id of the OS's default render device, or NoDevice
    epc,             \* position of get_endpoint_list
    calls,           \* enumeration calls made by the caller
    data_flow,       \* index into data_flows of get_endpoint_list
    pCollection,     \* the device collection being iterated
    endpoint_list,   \* the caller's endpoint_list
    default_index,
    default_id,
    snapshots,       \* default_id as snapshotted for each collection
    list_result,     \* what the last get_endpoint_list returned
    default_result,  \* what the last get_default_endpoint call returned
    prev_default_result,
    query,           \* the OS's answer to the last direct get_default_endpoint
    last_call,       \* the operation the caller invoked last
    query_failed,    \* an OS query of an enumeration operation has failed
    list_history     \* the first get_endpoint_list result, while the OS's
                     \* devices are as they were when that call began

captureVars == <<pc, mixFormat, pCaptureFormat, _format, hnsMinimumDevicePeriod,
                 duration, expiry, ticks, next_packet_size, numFramesAvailable,
                 os_started, os_held, resources, trace>>
enumVars == <<osRender, osCapture, osDefault, epc, calls, data_flow, pCollection,
              endpoint_list, default_index, default_id, snapshots, list_result,
              default_result, prev_default_result, query, last_call, query_failed,
              list_history>>
vars == <<exited, exit_message, _stoppped, captureVars, enumVars>>

(***************************************************************************)
(* The audio devices of the OS.  Strings are sequences of character codes; *)
(* device ids are ASCII, a friendly name may hold any character.           *)
(***************************************************************************)
DevA == [id |-> <<65>>, name |-> <<83, 112>>]
DevB == [id |-> <<66>>, name |-> <<72, 233>>]
DevM == [id |-> <<77>>, name |-> <<77, 105>>]
NoDevice == <<>>

(***************************************************************************)
(* The default render device is one of the active render devices; there is *)
(* none exactly when no render device is active.                           *)
(***************************************************************************)
DeviceConfigs ==
    { cfg \in [render : {<<>>, <<DevA>>, <<DevB>>, <<DevA, DevB>>, <<DevB, DevA>>},
               capture : {<<>>, <<DevM>>},
               default : {NoDevice, DevA.id, DevB.id}] :
        IF cfg.render = <<>>
        THEN cfg.default = NoDevice
        ELSE \E i \in 1..Len(cfg.render) : cfg.render[i].id = cfg.default }

InitialDevices == [render |-> <<DevA, DevB>>, capture |-> <<DevM>>, default |-> DevA.id]

NoResult == [index |-> NoIndex, list |-> <<>>]
NoQuery == [hr |-> "none", os |-> NoDevice]
NoHistory == [os |-> "none", count |-> 0, index |-> NoIndex, list |-> <<>>]
ChangedHistory == [os |-> "changed", count |-> 0, index |-> NoIndex, list |-> <<>>]

Event(name, ok, n) == [ev |-> name, ok |-> ok, n |-> n]

DefaultFormat ==
    [format_tag |-> WAVE_FORMAT_UNKNOWN, channels |-> 0,
     sample_rate |-> 0, bits_per_sample |-> 0]

(***************************************************************************)
(* exit_on_failed with a failed HRESULT: logs the message and calls        *)
(* exit(-1).  exit() runs no destructor of the session's locals and the    *)
(* stream is left as it is.                                                *)
(***************************************************************************)
exit_on_failed(message) ==
    /\ exited' = TRUE
    /\ exit_message' = message
    /\ pc' = "Exited"

(***************************************************************************)
(* The OS calls of the session that only yield an object: name, the        *)
(* message of their exit_on_failed, the resource obtained, the next call.  *)
(***************************************************************************)
PlainCalls ==
    << [name |-> "CoCreateInstance", message |-> "Failed to create IMMDeviceEnumerator",
        gets |-> {"pEnumerator"}, next |-> "GetDevice"],
       [name |-> "GetDevice", message |-> "Failed to get audio endpoint device",
        gets |-> {"pEndpoint"}, next |-> "OpenPropertyStore"],
       [name |-> "OpenPropertyStore", message |-> "Failed to open property store",
        gets |-> {"pProps"}, next |-> "GetValue"],
       [name |-> "GetValue", message |-> "Failed to get device friendly name",
        gets |-> {}, next |-> "Activate"],
       [name |-> "Activate", message |-> "Failed to activate IAudioClient",
        gets |-> {"pAudioClient"}, next |-> "GetMixFormat"],
       [name |-> "GetBufferSize", message |-> "Failed to get buffer size",
        gets |-> {}, next |-> "GetService"],
       [name |-> "GetService", message |-> "Failed to get IAudioCaptureClient",
        gets |-> {"pCaptureClient"}, next |-> "Start"] >>

(***************************************************************************)
(* Variant: set_format returns early when the tag is not resolved.         *)
(***************************************************************************)
set_formatResolvedOnly(old, format) ==
    IF format.wFormatTag \in {WAVE_FORMAT_PCM, WAVE_FORMAT_IEEE_FLOAT}
       \/ (format.wFormatTag = WAVE_FORMAT_EXTENSIBLE
            /\ format.SubFormat \in {KSDATAFORMAT_SUBTYPE_PCM,
                                      KSDATAFORMAT_SUBTYPE_IEEE_FLOAT})
    THEN [format_tag |-> IF format.wFormatTag = WAVE_FORMAT_EXTENSIBLE
                         THEN (IF format.SubFormat = KSDATAFORMAT_SUBTYPE_PCM
                               THEN WAVE_FORMAT_PCM ELSE WAVE_FORMAT_IEEE_FLOAT)
                         ELSE format.wFormatTag,
          channels |-> format.nChannels,
          sample_rate |-> format.nSamplesPerSec,
          bits_per_sample |-> format.wBitsPerSample]
    ELSE old

(***************************************************************************)
(* set_format: the tag is written only on the branches that resolve it;    *)
(* channels, sample rate and bits per sample are always written.           *)
(***************************************************************************)
set_format(old, format) ==
    LET tag ==
          IF format.wFormatTag = WAVE_FORMAT_PCM
             \/ format.wFormatTag = WAVE_FORMAT_IEEE_FLOAT
          THEN format.wFormatTag
          ELSE IF format.wFormatTag = WAVE_FORMAT_EXTENSIBLE
          THEN IF format.SubFormat = KSDATAFORMAT_SUBTYPE_PCM
               THEN WAVE_FORMAT_PCM
               ELSE IF format.SubFormat = KSDATAFORMAT_SUBTYPE_IEEE_FLOAT
               THEN WAVE_FORMAT_IEEE_FLOAT
               ELSE old.format_tag
          ELSE old.format_tag
    IN [format_tag |-> tag, channels |-> format.nChannels,
        sample_rate |-> format.nSamplesPerSec,
        bits_per_sample |-> format.wBitsPerSample]

(***************************************************************************)
(* The WAVE_FORMAT_EXTENSIBLE rewrite of do_loopback_recording: the tag of *)
(* the mix format buffer itself becomes IEEE_FLOAT.                        *)
(***************************************************************************)
HandleExtensible(format) ==
    IF format.wFormatTag = WAVE_FORMAT_EXTENSIBLE
       /\ format.SubFormat = KSDATAFORMAT_SUBTYPE_IEEE_FLOAT
    THEN [format EXCEPT !.wFormatTag = WAVE_FORMAT_IEEE_FLOAT]
    ELSE format

(***************************************************************************)
(* int count = numFramesAvailable * bytes_per_frame.  The frame counts and *)
(* block alignments of NativeFormats and PacketSizes keep the UINT32       *)
(* product far below 2^31, where the conversion to int changes nothing.    *)
(***************************************************************************)
(***************************************************************************)
(* Variant: the frame count is passed as the byte count.                   *)
(***************************************************************************)
ByteCountFrames(frames, bytes_per_frame) == frames

ByteCount(frames, bytes_per_frame) == frames * bytes_per_frame

(***************************************************************************)
(* The states of section 4.3 as positions of do_loopback_recording.        *)
(* Running begins when Initialize has succeeded.                           *)
(***************************************************************************)
InitializingPcs == {"CoCreateInstance", "GetDevice", "OpenPropertyStore", "GetValue",
                    "Activate", "GetMixFormat", "Negotiate", "GetDevicePeriod",
                    "Initialize", "InitializeFallback"}
RunningPcs == {"GetBufferSize", "GetService", "Start", "TimerInit", "Wait",
               "GetNextPacketSize", "GetBuffer", "Broadcast", "ReleaseBuffer",
               "CheckStop"}
LoopPcs == {"Wait", "GetNextPacketSize", "GetBuffer", "Broadcast", "ReleaseBuffer",
            "CheckStop"}

CaptureState ==
    IF pc = "Idle" THEN "Idle"
    ELSE IF pc \in InitializingPcs THEN "Initializing"
    ELSE IF pc \in RunningPcs THEN "Running"
    ELSE IF pc = "Stop" THEN "Stopping"
    ELSE IF pc = "Stopped" THEN "Stopped"
    ELSE "ErrorAborted"

Init ==
    /\ exited = FALSE
    /\ exit_message = ""
    /\ pc = "Idle"
    /\ _stoppped = FALSE
    /\ mixFormat = NoFormat
    /\ pCaptureFormat = NoFormat
    /\ _format = DefaultFormat
    /\ hnsMinimumDevicePeriod = 0
    /\ duration = 0
    /\ expiry = 0
    /\ ticks = 0
    /\ next_packet_size = 0
    /\ numFramesAvailable = 0
    /\ os_started = FALSE
    /\ os_held = FALSE
    /\ resources = {}
    /\ trace = <<>>
    /\ osRender = InitialDevices.render
    /\ osCapture = InitialDevices.capture
    /\ osDefault = InitialDevices.default
    /\ epc = "Idle"
    /\ calls = 0
    /\ data_flow = 1
    /\ pCollection = <<>>
    /\ endpoint_list = <<>>
    /\ default_index = NoIndex
    /\ default_id = <<>>
    /\ snapshots = <<>>
    /\ list_result = NoResult
    /\ default_result = <<>>
    /\ prev_default_result = <<>>
    /\ query = NoQuery
    /\ last_call = "none"
    /\ query_failed = FALSE
    /\ list_history = NoHistory

(***************************************************************************)
(* The caller's side of the stop flag: set at any time, cleared only       *)
(* between sessions.                                                       *)
(***************************************************************************)
SetStop ==
    /\ ~exited
    /\ UNCHANGED enumVars
    /\ ~_stoppped
    /\ _stoppped' = TRUE
    /\ trace' = IF pc \in {"Idle", "Stopped"} THEN trace
                ELSE Append(trace, Event("stop_set", TRUE, 0))
    /\ UNCHANGED <<exited, exit_message, pc, mixFormat, pCaptureFormat,
                   _format, hnsMinimumDevicePeriod, duration, expiry, ticks, next_packet_size,
                   numFramesAvailable, os_started, os_held, resources>>

ClearStop ==
    /\ ~exited
    /\ UNCHANGED enumVars
    /\ _stoppped
    /\ pc \in {"Idle", "Stopped"}
    /\ _stoppped' = FALSE
    /\ UNCHANGED <<exited, exit_message, captureVars>>

(***************************************************************************)
(* do_loopback_recording is entered.                                       *)
(***************************************************************************)
StartLoopbackCapture ==
    /\ ~exited
    /\ UNCHANGED enumVars
    /\ pc \in {"Idle", "Stopped"}
    /\ pc' = "CoCreateInstance"
    /\ mixFormat' = NoFormat
    /\ pCaptureFormat' = NoFormat
    /\ hnsMinimumDevicePeriod' = 0
    /\ duration' = 0
    /\ expiry' = 0
    /\ ticks' = 0
    /\ next_packet_size' = 0
    /\ numFramesAvailable' = 0
    /\ trace' = IF _stoppped THEN <<Event("stop_set", TRUE, 0)>> ELSE <<>>
    /\ UNCHANGED <<exited, exit_message, _stoppped, _format, os_started, os_held,
                   resources>>

PlainCall ==
    /\ ~exited
    /\ UNCHANGED enumVars
    /\ \E i \in 1..Len(PlainCalls) :
          /\ pc = PlainCalls[i].name
          /\ \E ok \in BOOLEAN :
                /\ trace' = Append(trace, Event(PlainCalls[i].name, ok, 0))
                /\ IF ok
                   THEN /\ pc' = PlainCalls[i].next
                        /\ resources' = resources \cup PlainCalls[i].gets
                        /\ UNCHANGED <<exited, exit_message>>
                   ELSE /\ exit_on_failed(PlainCalls[i].message)
                        /\ UNCHANGED resources
    /\ UNCHANGED <<_stoppped, mixFormat, pCaptureFormat, _format,
                   hnsMinimumDevicePeriod, duration, expiry, ticks, next_packet_size,
                   numFramesAvailable, os_started, os_held>>

GetMixFormat ==
    /\ ~exited
    /\ UNCHANGED enumVars
    /\ pc = "GetMixFormat"
    /\ \/ /\ \E f \in NativeFormats : mixFormat' = f /\ pCaptureFormat' = f
          /\ trace' = Append(trace, Event("GetMixFormat", TRUE, 0))
          /\ resources' = resources \cup {"pCaptureFormat"}
          /\ pc' = "Negotiate"
          /\ UNCHANGED <<exited, exit_message>>
       \/ /\ trace' = Append(trace, Event("GetMixFormat", FALSE, 0))
          /\ exit_on_failed("Failed to get mix format")
          /\ UNCHANGED <<mixFormat, pCaptureFormat, resources>>
    /\ UNCHANGED <<_stoppped, _format, hnsMinimumDevicePeriod, duration,
                   expiry, ticks, next_packet_size, numFramesAvailable, os_started,
                   os_held>>

Negotiate ==
    /\ ~exited
    /\ UNCHANGED enumVars
    /\ pc = "Negotiate"
    /\ pCaptureFormat' = HandleExtensible(pCaptureFormat)
    /\ _format' = set_format(_format, HandleExtensible(pCaptureFormat))
    /\ pc' = "GetDevicePeriod"
    /\ UNCHANGED <<exited, exit_message, _stoppped, mixFormat,
                   hnsMinimumDevicePeriod, duration, expiry, ticks, next_packet_size,
                   numFramesAvailable, os_started, os_held, resources, trace>>

loopVars == <<duration, expiry, ticks, next_packet_size, numFramesAvailable>>
formatVars == <<mixFormat, pCaptureFormat, _format>>

GetDevicePeriod ==
    /\ ~exited
    /\ UNCHANGED enumVars
    /\ pc = "GetDevicePeriod"
    /\ \/ /\ hnsMinimumDevicePeriod' = DevicePeriod(mixFormat)
          /\ trace' = Append(trace, Event("GetDevicePeriod", TRUE, DevicePeriod(mixFormat)))
          /\ pc' = "Initialize"
          /\ UNCHANGED <<exited, exit_message>>
       \/ /\ trace' = Append(trace, Event("GetDevicePeriod", FALSE, 0))
          /\ exit_on_failed("Failed to get device period")
          /\ UNCHANGED hnsMinimumDevicePeriod
    /\ UNCHANGED <<_stoppped, formatVars, loopVars, os_started, os_held,
                   resources>>

hnsRequestedDuration == 5 * REFTIMES_PER_SEC

(***************************************************************************)
(* Variant: the second attempt asks for exclusive mode.                    *)
(***************************************************************************)
InitializeEventExclusiveFallback(ok, flags) ==
    [ev |-> "Initialize", ok |-> ok, n |-> 0,
     share |-> IF flags = AUDCLNT_STREAMFLAGS_LOOPBACK
               THEN "AUDCLNT_SHAREMODE_SHARED" ELSE "AUDCLNT_SHAREMODE_EXCLUSIVE",
     flags |-> flags, hnsBufferDuration |-> hnsRequestedDuration,
     format |-> pCaptureFormat]

(***************************************************************************)
(* pAudioClient->Initialize(AUDCLNT_SHAREMODE_SHARED, flags,               *)
(* hnsRequestedDuration, 0, pCaptureFormat, nullptr) as the OS sees it.    *)
(***************************************************************************)
InitializeEvent(ok, flags) ==
    [ev |-> "Initialize", ok |-> ok, n |-> 0, share |-> "AUDCLNT_SHAREMODE_SHARED",
     flags |-> flags, hnsBufferDuration |-> hnsRequestedDuration,
     format |-> pCaptureFormat]

(***************************************************************************)
(* Initialize with the loopback flag; a failure is not fatal and leads to  *)
(* the second attempt.                                                     *)
(***************************************************************************)
Initialize ==
    /\ ~exited
    /\ UNCHANGED enumVars
    /\ pc = "Initialize"
    /\ \E ok \in BOOLEAN :
          /\ trace' = Append(trace, InitializeEvent(ok, AUDCLNT_STREAMFLAGS_LOOPBACK))
          /\ pc' = IF ok THEN "GetBufferSize" ELSE "InitializeFallback"
    /\ UNCHANGED <<exited, exit_message, _stoppped, formatVars,
                   hnsMinimumDevicePeriod, loopVars, os_started, os_held, resources>>

(***************************************************************************)
(* Variant: the second Initialize without its exit_on_failed.              *)
(***************************************************************************)
InitializeFallbackUnchecked ==
    /\ ~exited
    /\ UNCHANGED enumVars
    /\ pc = "InitializeFallback"
    /\ \E ok \in BOOLEAN :
          trace' = Append(trace, InitializeEvent(ok, AUDCLNT_STREAMFLAGS_EVENTCALLBACK))
    /\ pc' = "GetBufferSize"
    /\ UNCHANGED <<exited, exit_message, _stoppped, formatVars,
                   hnsMinimumDevicePeriod, loopVars, os_started, os_held, resources>>

(***************************************************************************)
(* The second Initialize, with the event-callback flag, and its            *)
(* exit_on_failed.                                                         *)
(***************************************************************************)
InitializeFallback ==
    /\ ~exited
    /\ UNCHANGED enumVars
    /\ pc = "InitializeFallback"
    /\ \E ok \in BOOLEAN :
          /\ trace' = Append(trace,
                              InitializeEvent(ok, AUDCLNT_STREAMFLAGS_EVENTCALLBACK))
          /\ IF ok
             THEN /\ pc' = "GetBufferSize"
                  /\ UNCHANGED <<exited, exit_message>>
             ELSE exit_on_failed("Failed to initialize audio client for loopback")
    /\ UNCHANGED <<_stoppped, formatVars, hnsMinimumDevicePeriod, loopVars,
                   os_started, os_held, resources>>

(***************************************************************************)
(* Variant: Start without its exit_on_failed.                              *)
(***************************************************************************)
StartUnchecked ==
    /\ ~exited
    /\ UNCHANGED enumVars
    /\ pc = "Start"
    /\ \E ok \in BOOLEAN :
          /\ trace' = Append(trace, Event("Start", ok, 0))
          /\ os_started' = ok
    /\ pc' = "TimerInit"
    /\ UNCHANGED <<exited, exit_message, _stoppped, formatVars,
                   hnsMinimumDevicePeriod, loopVars, os_held, resources>>

(***************************************************************************)
(* pAudioClient->Start() and its exit_on_failed.                           *)
(***************************************************************************)
Start ==
    /\ ~exited
    /\ UNCHANGED enumVars
    /\ pc = "Start"
    /\ \E ok \in BOOLEAN :
          /\ trace' = Append(trace, Event("Start", ok, 0))
          /\ IF ok
             THEN /\ pc' = "TimerInit"
                  /\ os_started' = TRUE
                  /\ UNCHANGED <<exited, exit_message>>
             ELSE /\ exit_on_failed("Failed to start audio client")
                  /\ UNCHANGED os_started
    /\ UNCHANGED <<_stoppped, formatVars, hnsMinimumDevicePeriod, loopVars,
                   os_held, resources>>

(***************************************************************************)
(* Variant: the device period is rounded up to whole milliseconds.         *)
(***************************************************************************)
TimerInitRoundsUp ==
    /\ ~exited
    /\ UNCHANGED enumVars
    /\ pc = "TimerInit"
    /\ duration' = (hnsMinimumDevicePeriod + REFTIMES_PER_MILLISEC - 1)
                   \div REFTIMES_PER_MILLISEC
    /\ expiry' = 0
    /\ pc' = "Wait"
    /\ UNCHANGED <<exited, exit_message, _stoppped, formatVars,
                   hnsMinimumDevicePeriod, ticks, next_packet_size,
                   numFramesAvailable, os_started, os_held, resources, trace>>

(***************************************************************************)
(* duration is the device period in whole milliseconds; the timer expires  *)
(* now, which is time 0 of the loop.                                       *)
(***************************************************************************)
TimerInit ==
    /\ ~exited
    /\ UNCHANGED enumVars
    /\ pc = "TimerInit"
    /\ duration' = hnsMinimumDevicePeriod \div REFTIMES_PER_MILLISEC
    /\ expiry' = 0
    /\ pc' = "Wait"
    /\ UNCHANGED <<exited, exit_message, _stoppped, formatVars,
                   hnsMinimumDevicePeriod, ticks, next_packet_size,
                   numFramesAvailable, os_started, os_held, resources, trace>>

(***************************************************************************)
(* Variant: the stop flag is read when the tick fires.                     *)
(***************************************************************************)
WaitReadsStop ==
    /\ ~exited
    /\ UNCHANGED enumVars
    /\ pc = "Wait"
    /\ ticks < MaxTicks \/ (_stoppped /\ ticks = MaxTicks)
    /\ expiry' = expiry + duration
    /\ ticks' = ticks + 1
    /\ \E ec \in BOOLEAN :
          /\ trace' = Append(trace, Event("tick", ~ec, expiry + duration))
          /\ pc' = IF ec \/ _stoppped THEN "Stop" ELSE "GetNextPacketSize"
    /\ UNCHANGED <<exited, exit_message, _stoppped, formatVars,
                   hnsMinimumDevicePeriod, duration, next_packet_size,
                   numFramesAvailable, os_started, os_held, resources>>

(***************************************************************************)
(* Variant: a timer wait error returns from the function at once.          *)
(***************************************************************************)
WaitErrorReturns ==
    /\ ~exited
    /\ UNCHANGED enumVars
    /\ pc = "Wait"
    /\ ticks < MaxTicks \/ (_stoppped /\ ticks = MaxTicks)
    /\ expiry' = expiry + duration
    /\ ticks' = ticks + 1
    /\ \E ec \in BOOLEAN :
          /\ trace' = Append(trace, Event("tick", ~ec, expiry + duration))
          /\ pc' = IF ec THEN "Stopped" ELSE "GetNextPacketSize"
    /\ UNCHANGED <<exited, exit_message, _stoppped, formatVars,
                   hnsMinimumDevicePeriod, duration, next_packet_size,
                   numFramesAvailable, os_started, os_held, resources>>

(***************************************************************************)
(* Top of the do-while body: the timer is advanced by one duration and     *)
(* waited for; a wait error breaks out of the loop.  The stop flag is not  *)
(* read here.  The model follows a session for MaxTicks ticks, and for one *)
(* more when the stop flag is set, which is then the last.                 *)
(***************************************************************************)
Wait ==
    /\ ~exited
    /\ UNCHANGED enumVars
    /\ pc = "Wait"
    /\ ticks < MaxTicks \/ (_stoppped /\ ticks = MaxTicks)
    /\ expiry' = expiry + duration
    /\ ticks' = ticks + 1
    /\ \E ec \in BOOLEAN :
          /\ trace' = Append(trace, Event("tick", ~ec, expiry + duration))
          /\ pc' = IF ec THEN "Stop" ELSE "GetNextPacketSize"
    /\ UNCHANGED <<exited, exit_message, _stoppped, formatVars,
                   hnsMinimumDevicePeriod, duration, next_packet_size,
                   numFramesAvailable, os_started, os_held, resources>>

(***************************************************************************)
(* Variant: a zero packet size breaks out of the loop.                     *)
(***************************************************************************)
GetNextPacketSizeBreaks ==
    /\ ~exited
    /\ UNCHANGED enumVars
    /\ pc = "GetNextPacketSize"
    /\ \/ /\ \E size \in PacketSizes :
                /\ next_packet_size' = size
                /\ trace' = Append(trace, Event("GetNextPacketSize", TRUE, size))
                /\ pc' = IF size = 0 THEN "Stop" ELSE "GetBuffer"
          /\ UNCHANGED <<exited, exit_message>>
       \/ /\ trace' = Append(trace, Event("GetNextPacketSize", FALSE, 0))
          /\ exit_on_failed("pCaptureClient->GetNextPacketSize")
          /\ UNCHANGED next_packet_size
    /\ UNCHANGED <<_stoppped, formatVars, hnsMinimumDevicePeriod, duration,
                   expiry, ticks, numFramesAvailable, os_started, os_held, resources>>

(***************************************************************************)
(* A zero packet size continues: in a do-while that is a jump to the       *)
(* loop condition.                                                         *)
(***************************************************************************)
GetNextPacketSize ==
    /\ ~exited
    /\ UNCHANGED enumVars
    /\ pc = "GetNextPacketSize"
    /\ \/ /\ \E size \in PacketSizes :
                /\ next_packet_size' = size
                /\ trace' = Append(trace, Event("GetNextPacketSize", TRUE, size))
                /\ pc' = IF size = 0 THEN "CheckStop" ELSE "GetBuffer"
          /\ UNCHANGED <<exited, exit_message>>
       \/ /\ trace' = Append(trace, Event("GetNextPacketSize", FALSE, 0))
          /\ exit_on_failed("pCaptureClient->GetNextPacketSize")
          /\ UNCHANGED next_packet_size
    /\ UNCHANGED <<_stoppped, formatVars, hnsMinimumDevicePeriod, duration,
                   expiry, ticks, numFramesAvailable, os_started, os_held, resources>>

(***************************************************************************)
(* Variant: GetBuffer without its exit_on_failed.                          *)
(***************************************************************************)
GetBufferUnchecked ==
    /\ ~exited
    /\ UNCHANGED enumVars
    /\ pc = "GetBuffer"
    /\ \E ok \in BOOLEAN :
          IF ok
          THEN /\ numFramesAvailable' = next_packet_size
               /\ os_held' = TRUE
               /\ trace' = Append(trace, Event("GetBuffer", TRUE, next_packet_size))
          ELSE /\ trace' = Append(trace, Event("GetBuffer", FALSE, 0))
               /\ UNCHANGED <<numFramesAvailable, os_held>>
    /\ pc' = "Broadcast"
    /\ UNCHANGED <<exited, exit_message, _stoppped, formatVars,
                   hnsMinimumDevicePeriod, duration, expiry, ticks, next_packet_size,
                   os_started, resources>>

(***************************************************************************)
(* GetBuffer hands out the next packet: its frame count is the packet      *)
(* size just polled.                                                       *)
(***************************************************************************)
GetBuffer ==
    /\ ~exited
    /\ UNCHANGED enumVars
    /\ pc = "GetBuffer"
    /\ \E ok \in BOOLEAN :
          IF ok
          THEN /\ numFramesAvailable' = next_packet_size
               /\ os_held' = TRUE
               /\ trace' = Append(trace, Event("GetBuffer", TRUE, next_packet_size))
               /\ pc' = "Broadcast"
               /\ UNCHANGED <<exited, exit_message>>
          ELSE /\ trace' = Append(trace, Event("GetBuffer", FALSE, 0))
               /\ exit_on_failed("pCaptureClient->GetBuffer")
               /\ UNCHANGED <<numFramesAvailable, os_held>>
    /\ UNCHANGED <<_stoppped, formatVars, hnsMinimumDevicePeriod, duration,
                   expiry, ticks, next_packet_size, os_started, resources>>

(***************************************************************************)
(* network_manager->broadcast_audio_data(pData, count, nBlockAlign).       *)
(***************************************************************************)
Broadcast ==
    /\ ~exited
    /\ UNCHANGED enumVars
    /\ pc = "Broadcast"
    /\ trace' = Append(trace,
                       Event("broadcast_audio_data", TRUE,
                             ByteCount(numFramesAvailable, pCaptureFormat.nBlockAlign)))
    /\ pc' = "ReleaseBuffer"
    /\ UNCHANGED <<exited, exit_message, _stoppped, formatVars,
                   hnsMinimumDevicePeriod, loopVars, os_started, os_held, resources>>

(***************************************************************************)
(* Variant: the buffer is released with a frame count of zero.             *)
(***************************************************************************)
ReleaseBufferNoFrames ==
    /\ ~exited
    /\ UNCHANGED enumVars
    /\ pc = "ReleaseBuffer"
    /\ \E ok \in BOOLEAN :
          /\ trace' = Append(trace, Event("ReleaseBuffer", ok, 0))
          /\ IF ok
             THEN /\ os_held' = FALSE
                  /\ pc' = "CheckStop"
                  /\ UNCHANGED <<exited, exit_message>>
             ELSE /\ exit_on_failed("pCaptureClient->ReleaseBuffer")
                  /\ UNCHANGED os_held
    /\ UNCHANGED <<_stoppped, formatVars, hnsMinimumDevicePeriod, loopVars,
                   os_started, resources>>

(***************************************************************************)
(* ReleaseBuffer(numFramesAvailable) and its exit_on_failed.               *)
(***************************************************************************)
ReleaseBuffer ==
    /\ ~exited
    /\ UNCHANGED enumVars
    /\ pc = "ReleaseBuffer"
    /\ \E ok \in BOOLEAN :
          /\ trace' = Append(trace, Event("ReleaseBuffer", ok, numFramesAvailable))
          /\ IF ok
             THEN /\ os_held' = FALSE
                  /\ pc' = "CheckStop"
                  /\ UNCHANGED <<exited, exit_message>>
             ELSE /\ exit_on_failed("pCaptureClient->ReleaseBuffer")
                  /\ UNCHANGED os_held
    /\ UNCHANGED <<_stoppped, formatVars, hnsMinimumDevicePeriod, loopVars,
                   os_started, resources>>

(***************************************************************************)
(* Variant: the zero-size continue skips the loop condition.               *)
(***************************************************************************)
CheckStopAfterDataOnly ==
    /\ ~exited
    /\ UNCHANGED enumVars
    /\ pc = "CheckStop"
    /\ trace' = Append(trace, Event("check", _stoppped /\ next_packet_size # 0, 0))
    /\ pc' = IF _stoppped /\ next_packet_size # 0 THEN "Stop" ELSE "Wait"
    /\ UNCHANGED <<exited, exit_message, _stoppped, formatVars,
                   hnsMinimumDevicePeriod, loopVars, os_started, os_held, resources>>

(***************************************************************************)
(* while (!_stoppped): the one place where the stop flag is read.          *)
(***************************************************************************)
CheckStop ==
    /\ ~exited
    /\ UNCHANGED enumVars
    /\ pc = "CheckStop"
    /\ trace' = Append(trace, Event("check", _stoppped, 0))
    /\ pc' = IF _stoppped THEN "Stop" ELSE "Wait"
    /\ UNCHANGED <<exited, exit_message, _stoppped, formatVars,
                   hnsMinimumDevicePeriod, loopVars, os_started, os_held, resources>>

(***************************************************************************)
(* pAudioClient->Stop() and the return: the locals' destructors release    *)
(* what the session holds.                                                 *)
(***************************************************************************)
Stop ==
    /\ ~exited
    /\ UNCHANGED enumVars
    /\ pc = "Stop"
    /\ trace' = Append(trace, Event("Stop", TRUE, 0))
    /\ os_started' = FALSE
    /\ resources' = {}
    /\ pc' = "Stopped"
    /\ UNCHANGED <<exited, exit_message, _stoppped, formatVars,
                   hnsMinimumDevicePeriod, loopVars, os_held>>

SessionStep ==
    \/ PlainCall
    \/ GetMixFormat
    \/ Negotiate
    \/ GetDevicePeriod
    \/ Initialize
    \/ InitializeFallback
    \/ Start
    \/ TimerInit
    \/ Wait
    \/ GetNextPacketSize
    \/ GetBuffer
    \/ Broadcast
    \/ ReleaseBuffer
    \/ CheckStop
    \/ Stop

(***************************************************************************)
(* wchars_to_mbs: WideCharToMultiByte under the ANSI code page.  An ASCII  *)
(* character keeps its code; a character the code page cannot represent    *)
(* becomes the default character, a question mark.                         *)
(***************************************************************************)
wchars_to_mbs(src) ==
    [i \in 1..Len(src) |-> IF src[i] < AsciiLimit THEN src[i] ELSE QuestionMark]

(***************************************************************************)
(* The HRESULTs GetDefaultAudioEndpoint(eRender, eConsole) can return in   *)
(* the OS's present state.                                                 *)
(***************************************************************************)
DefaultEndpointHrs ==
    IF osDefault = NoDevice THEN {"E_NOTFOUND", "E_FAIL"} ELSE {"S_OK", "E_FAIL"}

(***************************************************************************)
(* Variant: a non-empty id once returned is kept and returned again.       *)
(***************************************************************************)
get_default_endpointCached(co_ok, hr, id_ok) ==
    IF default_result # <<>> THEN [kind |-> "value", value |-> default_result]
    ELSE IF ~co_ok THEN [kind |-> "exit", value |-> <<>>]
    ELSE IF hr = "E_NOTFOUND" THEN [kind |-> "value", value |-> <<>>]
    ELSE IF hr # "S_OK" THEN [kind |-> "exit", value |-> <<>>]
    ELSE IF ~id_ok THEN [kind |-> "exit", value |-> <<>>]
    ELSE [kind |-> "value", value |-> wchars_to_mbs(osDefault)]

(***************************************************************************)
(* get_default_endpoint, given the outcomes of its three OS calls: the     *)
(* process exits, or the id (empty when no default device) is returned.    *)
(***************************************************************************)
get_default_endpoint(co_ok, hr, id_ok) ==
    IF ~co_ok THEN [kind |-> "exit", value |-> <<>>]
    ELSE IF hr = "E_NOTFOUND" THEN [kind |-> "value", value |-> <<>>]
    ELSE IF hr # "S_OK" THEN [kind |-> "exit", value |-> <<>>]
    ELSE IF ~id_ok THEN [kind |-> "exit", value |-> <<>>]
    ELSE [kind |-> "value", value |-> wchars_to_mbs(osDefault)]

(***************************************************************************)
(* exit_on_failed(hr) of the enumeration operations: no message is given.  *)
(***************************************************************************)
EnumExit ==
    /\ exited' = TRUE
    /\ exit_message' = ""
    /\ epc' = "Exited"
    /\ query_failed' = TRUE

(***************************************************************************)
(* The caller invokes get_default_endpoint.                                *)
(***************************************************************************)
GetDefaultEndpointId ==
    /\ ~exited
    /\ UNCHANGED <<_stoppped, captureVars>>
    /\ epc = "Idle"
    /\ calls < MaxCalls
    /\ calls' = calls + 1
    /\ last_call' = "get_default_endpoint"
    /\ prev_default_result' = default_result
    /\ \E co_ok \in BOOLEAN, hr \in DefaultEndpointHrs, id_ok \in BOOLEAN :
          LET r == get_default_endpoint(co_ok, hr, id_ok) IN
            /\ query' = [hr |-> IF co_ok THEN hr ELSE "none", os |-> osDefault]
            /\ IF r.kind = "exit"
               THEN /\ EnumExit
                    /\ UNCHANGED default_result
               ELSE /\ default_result' = r.value
                    /\ UNCHANGED <<exited, exit_message, epc, query_failed>>
    /\ UNCHANGED <<osRender, osCapture, osDefault, data_flow, pCollection,
                   endpoint_list, default_index, default_id, snapshots, list_result,
                   list_history>>

(***************************************************************************)
(* Variant: the entries are appended to what an earlier call left in the    *)
(* list.                                                                   *)
(***************************************************************************)
ListBeginKeepsList ==
    /\ ~exited
    /\ UNCHANGED <<_stoppped, captureVars>>
    /\ epc = "Idle"
    /\ calls < MaxCalls
    /\ calls' = calls + 1
    /\ last_call' = "get_endpoint_list"
    /\ endpoint_list' = endpoint_list
    /\ snapshots' = <<>>
    /\ default_index' = NoIndex
    /\ data_flow' = 1
    /\ \E co_ok \in BOOLEAN, hr \in DefaultEndpointHrs, id_ok \in BOOLEAN :
          LET r == get_default_endpoint(co_ok, hr, id_ok) IN
            IF r.kind = "exit"
            THEN /\ EnumExit
                 /\ UNCHANGED default_id
            ELSE /\ default_id' = r.value
                 /\ epc' = "ListEnum"
                 /\ UNCHANGED <<exited, exit_message, query_failed>>
    /\ list_history' = IF list_history.os = "none"
                       THEN [list_history EXCEPT !.os = "unchanged"]
                       ELSE list_history
    /\ UNCHANGED <<osRender, osCapture, osDefault, pCollection, list_result,
                   default_result, prev_default_result, query>>

(***************************************************************************)
(* get_endpoint_list is entered with the caller's empty list: default_index *)
(* is -1 and default_id is queried a first time.                           *)
(***************************************************************************)
ListBegin ==
    /\ ~exited
    /\ UNCHANGED <<_stoppped, captureVars>>
    /\ epc = "Idle"
    /\ calls < MaxCalls
    /\ calls' = calls + 1
    /\ last_call' = "get_endpoint_list"
    /\ endpoint_list' = <<>>
    /\ snapshots' = <<>>
    /\ default_index' = NoIndex
    /\ data_flow' = 1
    /\ \E co_ok \in BOOLEAN, hr \in DefaultEndpointHrs, id_ok \in BOOLEAN :
          LET r == get_default_endpoint(co_ok, hr, id_ok) IN
            IF r.kind = "exit"
            THEN /\ EnumExit
                 /\ UNCHANGED default_id
            ELSE /\ default_id' = r.value
                 /\ epc' = "ListEnum"
                 /\ UNCHANGED <<exited, exit_message, query_failed>>
    /\ list_history' = IF list_history.os = "none"
                       THEN [list_history EXCEPT !.os = "unchanged"]
                       ELSE list_history
    /\ UNCHANGED <<osRender, osCapture, osDefault, pCollection, list_result,
                   default_result, prev_default_result, query>>

(***************************************************************************)
(* CoCreateInstance, EnumAudioEndpoints(data_flow, DEVICE_STATE_ACTIVE)    *)
(* and GetCount: the collection is the OS's device list of that direction  *)
(* at this moment.                                                         *)
(***************************************************************************)
ListEnum ==
    /\ ~exited
    /\ UNCHANGED <<_stoppped, captureVars>>
    /\ epc = "ListEnum"
    /\ \E ok \in BOOLEAN :
          IF ok
          THEN /\ pCollection' = IF data_flow = 1 THEN osRender ELSE osCapture
               /\ epc' = "ListIterate"
               /\ UNCHANGED <<exited, exit_message, query_failed>>
          ELSE /\ EnumExit
               /\ UNCHANGED pCollection
    /\ UNCHANGED <<osRender, osCapture, osDefault, calls, data_flow, endpoint_list,
                   default_index, default_id, snapshots, list_result, default_result,
                   prev_default_result, query, last_call, list_history>>

Label(flow) == IF flow = 1 THEN "[Playback]" ELSE "[Recording]"

(***************************************************************************)
(* The entries pushed for the first n devices of a collection.             *)
(***************************************************************************)
Entries(collection, flow, n) ==
    [i \in 1..n |-> [id |-> wchars_to_mbs(collection[i].id),
                     name |-> <<Label(flow), wchars_to_mbs(collection[i].name)>>]]

(***************************************************************************)
(* default_index after the device loop over a collection: the index i of   *)
(* the last device whose id equals default_id, -1 when there is none.      *)
(***************************************************************************)
IndexAfterLoop(collection, id) ==
    LET hits == {i \in 1..Len(collection) : wchars_to_mbs(collection[i].id) = id}
    IN IF hits = {} THEN NoIndex
       ELSE (CHOOSE i \in hits : \A j \in hits : j <= i) - 1

(***************************************************************************)
(* The rest of one pass of the data_flows loop: default_index is reset,    *)
(* default_id is queried again, and every device of the collection is      *)
(* pushed; any failing OS call exits.                                      *)
(***************************************************************************)
ListIterate ==
    /\ ~exited
    /\ UNCHANGED <<_stoppped, captureVars>>
    /\ epc = "ListIterate"
    /\ \E co_ok \in BOOLEAN, hr \in DefaultEndpointHrs, id_ok \in BOOLEAN :
          LET r == get_default_endpoint(co_ok, hr, id_ok) IN
            IF r.kind = "exit"
            THEN /\ EnumExit
                 /\ default_index' = NoIndex
                 /\ UNCHANGED <<default_id, snapshots, endpoint_list, data_flow>>
            ELSE /\ default_id' = r.value
                 /\ snapshots' = Append(snapshots, r.value)
                 /\ \E failAt \in 0..Len(pCollection) :
                       IF failAt > 0
                       THEN /\ EnumExit
                            /\ endpoint_list' =
                                 endpoint_list \o Entries(pCollection, data_flow, failAt - 1)
                            /\ default_index' =
                                 IndexAfterLoop(SubSeq(pCollection, 1, failAt - 1), r.value)
                            /\ UNCHANGED data_flow
                       ELSE /\ endpoint_list' =
                                 endpoint_list
                                   \o Entries(pCollection, data_flow, Len(pCollection))
                            /\ default_index' = IndexAfterLoop(pCollection, r.value)
                            /\ IF data_flow = 1
                               THEN /\ data_flow' = 2
                                    /\ epc' = "ListEnum"
                               ELSE /\ epc' = "ListReturn"
                                    /\ UNCHANGED data_flow
                            /\ UNCHANGED <<exited, exit_message, query_failed>>
    /\ UNCHANGED <<osRender, osCapture, osDefault, calls, pCollection, list_result,
                   default_result, prev_default_result, query, last_call,
                   list_history>>

(***************************************************************************)
(* return default_index.                                                   *)
(***************************************************************************)
ListReturn ==
    /\ ~exited
    /\ UNCHANGED <<_stoppped, captureVars>>
    /\ epc = "ListReturn"
    /\ list_result' = [index |-> default_index, list |-> endpoint_list]
    /\ list_history' =
          IF list_history.os # "unchanged" THEN list_history
          ELSE IF list_history.count = 0
          THEN [os |-> "unchanged", count |-> 1,
                index |-> default_index, list |-> endpoint_list]
          ELSE [list_history EXCEPT !.count = @ + 1]
    /\ epc' = "Idle"
    /\ UNCHANGED <<exited, exit_message, osRender, osCapture, osDefault, calls,
                   data_flow, pCollection, endpoint_list, default_index, default_id,
                   snapshots, default_result, prev_default_result, query, last_call,
                   query_failed>>

(***************************************************************************)
(* The OS's devices change: plugged, unplugged, another default.           *)
(***************************************************************************)
DeviceChange ==
    /\ ~exited
    /\ UNCHANGED <<_stoppped, captureVars>>
    /\ \E cfg \in DeviceConfigs :
          /\ <<cfg.render, cfg.capture, cfg.default>> # <<osRender, osCapture, osDefault>>
          /\ osRender' = cfg.render
          /\ osCapture' = cfg.capture
          /\ osDefault' = cfg.default
    /\ list_history' = IF list_history.os = "none" THEN list_history
                       ELSE ChangedHistory
    /\ UNCHANGED <<exited, exit_message, epc, calls, data_flow, pCollection,
                   endpoint_list, default_index, default_id, snapshots, list_result,
                   default_result, prev_default_result, query, last_call, query_failed>>

EnumNext ==
    \/ GetDefaultEndpointId
    \/ ListBegin
    \/ ListEnum
    \/ ListIterate
    \/ ListReturn
    \/ DeviceChange

EnumSpec == Init /\ [][EnumNext]_vars

(***************************************************************************)
(* C11: a get_endpoint_list call that returns while the OS's devices and   *)
(* default device have not changed since the first call began returns the  *)
(* ids and names, in the order, and the default index the first call       *)
(* returned, each call starting from an empty list.                        *)
(***************************************************************************)
C11_ListEndpointsIdempotent ==
    (epc = "Idle" /\ last_call = "get_endpoint_list"
       /\ list_history.os = "unchanged" /\ list_history.count >= 2) =>
      /\ list_result.list = list_history.list
      /\ list_result.index = list_history.index

C11_Witness ==
    /\ epc = "Idle"
    /\ last_call = "get_endpoint_list"
    /\ list_history.os = "unchanged"
    /\ list_history.count = 2
    /\ Len(list_result.list) = 3
    /\ list_result.list = list_history.list
    /\ list_result.index = list_history.index

(***************************************************************************)
(* C6 as stated: after an OS query of get_endpoint_list or                 *)
(* get_default_endpoint has failed, the process is still running and the   *)
(* operation has returned to its caller.                                   *)
(***************************************************************************)
C6_QueryFailureRecoverable ==
    query_failed => (~exited /\ epc # "Exited")

(***************************************************************************)
(* C7: a direct get_default_endpoint call to which the OS answered "not    *)
(* found" has returned the empty id and the process runs on; one to which  *)
(* the OS answered with a default device has returned, unless a later OS   *)
(* call of it failed, the id that device had in the OS at that call,       *)
(* whatever earlier calls returned.                                        *)
(***************************************************************************)
C7_DefaultEndpointQueried ==
    last_call = "get_default_endpoint" =>
      /\ query.hr = "E_NOTFOUND" => (~exited /\ default_result = <<>>)
      /\ (query.hr = "S_OK" /\ ~exited) =>
            /\ default_result = wchars_to_mbs(query.os)
            /\ default_result = query.os
            /\ default_result # <<>>

C7_Witness ==
    /\ last_call = "get_default_endpoint"
    /\ calls = 2
    /\ ~exited
    /\ prev_default_result = DevA.id
    /\ query.hr = "E_NOTFOUND"
    /\ default_result = <<>>

(***************************************************************************)
(* C10 as stated: when get_endpoint_list has returned, the entries marked  *)
(* default are those whose id equals the default id snapshotted for their  *)
(* collection; the returned default_index is the position in the returned  *)
(* list of such an entry when there is one, and -1 only when there is none.*)
(***************************************************************************)
FlowOf(entry) == IF entry.name[1] = Label(1) THEN 1 ELSE 2

C10_DefaultIndexDesignatesDefault ==
    (last_call = "get_endpoint_list" /\ epc = "Idle") =>
      LET list == list_result.list
          marked == {k \in 1..Len(list) : list[k].id = snapshots[FlowOf(list[k])]}
      IN IF marked = {}
         THEN list_result.index = NoIndex
         ELSE list_result.index + 1 \in marked

CaptureNext ==
    \/ SetStop
    \/ ClearStop
    \/ StartLoopbackCapture
    \/ SessionStep

CaptureSpec == Init /\ [][CaptureNext]_vars

(***************************************************************************)
(* The session runs on its own thread: a step of do_loopback_recording     *)
(* that can be taken is eventually taken.                                  *)
(***************************************************************************)
FairCaptureSpec == CaptureSpec /\ WF_vars(SessionStep)

(***************************************************************************)
(* Reading the trace.                                                      *)
(***************************************************************************)
EventsNamed(name) == SelectSeq(trace, LAMBDA e : e.ev = name)
OkEvents(name) == SelectSeq(trace, LAMBDA e : e.ev = name /\ e.ok)
CodeEvents == SelectSeq(trace, LAMBDA e : e.ev # "stop_set")
Numbers(events) == [i \in 1..Len(events) |-> events[i].n]
StopSetIndices == {i \in 1..Len(trace) : trace[i].ev = "stop_set"}
AcquiresAfterStopSet ==
    Cardinality({i \in 1..Len(trace) :
                   /\ trace[i].ev = "GetBuffer"
                   /\ trace[i].ok
                   /\ \E j \in StopSetIndices : j < i})
Front(seq) == SubSeq(seq, 1, Len(seq) - 1)

(***************************************************************************)
(* C1: once the stop flag is set, the session performs at most one more    *)
(* buffer acquire; in Stopped no buffer is held and every acquire has its  *)
(* release; and a Running session whose stop flag is set reaches Stopped   *)
(* (or, when an OS call fails, ErrorAborted).                              *)
(***************************************************************************)
C1_StopBound ==
    /\ AcquiresAfterStopSet <= 1
    /\ pc = "Stopped" =>
          /\ ~os_held
          /\ Len(OkEvents("GetBuffer")) = Len(OkEvents("ReleaseBuffer"))

C1_StopReachesStopped ==
    /\ []C1_StopBound
    /\ (_stoppped /\ CaptureState = "Running")
          ~> (CaptureState \in {"Stopped", "ErrorAborted"})

C1_Witness ==
    /\ pc = "Stopped"
    /\ AcquiresAfterStopSet = 1
    /\ \E i \in StopSetIndices : \E j \in 1..(i - 1) : trace[j].ev = "tick"

(***************************************************************************)
(* C2 as stated: a tick that fires with the stop flag already set goes to  *)
(* Stopping without polling the packet size.                               *)
(***************************************************************************)
C2_StopReadBeforeTick ==
    [][(pc = "Wait" /\ _stoppped /\ pc' # pc) => pc' = "Stop"]_vars

(***************************************************************************)
(* C2 amended: the stop flag is read once at the end of each tick, after   *)
(* the release of that tick's buffer or after a zero packet size, and      *)
(* nowhere else.  A tick that reads it set goes to Stopping, one that      *)
(* reads it clear goes to the next timer wait.  Every tick whose wait      *)
(* succeeds polls the packet size whether or not the flag is set, the      *)
(* first tick of the session (which follows Start, with no read of the     *)
(* flag) included.                                                         *)
(***************************************************************************)
C2_StopReadAfterTick ==
    LET ce == CodeEvents IN
    /\ \A i \in 1..Len(trace) :
          trace[i].ev = "check" =>
            (trace[i].ok <=> \E j \in StopSetIndices : j < i)
    /\ \A i \in 1..Len(ce) :
          /\ ce[i].ev = "check" =>
                /\ i > 1
                /\ \/ ce[i-1].ev = "ReleaseBuffer" /\ ce[i-1].ok
                   \/ ce[i-1].ev = "GetNextPacketSize" /\ ce[i-1].ok /\ ce[i-1].n = 0
                /\ i < Len(ce) => ce[i+1].ev = (IF ce[i].ok THEN "Stop" ELSE "tick")
          /\ ce[i].ev = "tick" =>
                /\ i > 1
                /\ \/ ce[i-1].ev = "Start" /\ ce[i-1].ok
                   \/ ce[i-1].ev = "check" /\ ~ce[i-1].ok
                /\ (ce[i].ok /\ i < Len(ce)) => ce[i+1].ev = "GetNextPacketSize"
                /\ (ce[i].ok /\ i = Len(ce)) => pc = "GetNextPacketSize"
          /\ (ce[i].ev = "check" /\ i = Len(ce)) =>
                pc = (IF ce[i].ok THEN "Stop" ELSE "Wait")

C2_Witness ==
    /\ pc = "Stopped"
    /\ trace # <<>>
    /\ trace[1].ev = "stop_set"
    /\ Len(OkEvents("broadcast_audio_data")) = 1
    /\ Len(EventsNamed("tick")) = 1

(***************************************************************************)
(* C3: the sink is invoked once per tick whose polled packet size is       *)
(* nonzero, in tick order, with frames times nBlockAlign bytes, and not    *)
(* on a tick whose polled size is zero.  While the tick of the last poll   *)
(* has not yet broadcast (or its GetBuffer failed) its delivery is the     *)
(* one still missing.                                                      *)
(***************************************************************************)
Polled == Numbers(OkEvents("GetNextPacketSize"))
Delivered == Numbers(OkEvents("broadcast_audio_data"))
NonZero(sizes) == SelectSeq(sizes, LAMBDA n : n # 0)
ExpectedDeliveries ==
    LET nz == NonZero(Polled)
    IN [i \in 1..Len(nz) |-> nz[i] * pCaptureFormat.nBlockAlign]

C3_SinkPerNonEmptyTick ==
    LET exp == ExpectedDeliveries IN
    /\ \/ Delivered = exp
       \/ /\ exp # <<>>
          /\ Delivered = Front(exp)
          /\ Polled[Len(Polled)] # 0
          /\ pc \in {"GetBuffer", "Broadcast", "Exited"}
    /\ pc \in {"ReleaseBuffer", "CheckStop", "Wait", "GetNextPacketSize", "Stop",
                "Stopped"} => Delivered = exp
    /\ Numbers(OkEvents("GetBuffer")) = SubSeq(NonZero(Polled), 1, Len(OkEvents("GetBuffer")))
    /\ (Polled = <<0, 480, 0, 960>> /\ pCaptureFormat.nBlockAlign = 4
          /\ pc \in {"ReleaseBuffer", "CheckStop", "Wait", "Stop", "Stopped"})
         => Delivered = <<1920, 3840>>

C3_Witness ==
    /\ Polled = <<0, 480, 0, 960>>
    /\ pCaptureFormat.nBlockAlign = 4
    /\ Delivered = <<1920, 3840>>
    /\ pc = "Stopped"

(***************************************************************************)
(* C4: a successful primary Initialize puts the session in Running with    *)
(* no second attempt; a failed primary is followed by the fallback, whose  *)
(* success puts the session in Running; when both fail the session is in   *)
(* ErrorAborted with a non-empty reason, and is never Running.             *)
(***************************************************************************)
C4_InitializeFallback ==
    LET inits == EventsNamed("Initialize")
        ce == CodeEvents
        last == ce[Len(ce)]
    IN
    /\ Len(inits) <= 2
    /\ (Len(inits) >= 1 /\ inits[1].ok) => Len(inits) = 1
    /\ (Len(inits) >= 1 /\ inits[1].flags # AUDCLNT_STREAMFLAGS_LOOPBACK) => FALSE
    /\ (ce # <<>> /\ last.ev = "Initialize") =>
          IF last.ok THEN CaptureState = "Running"
          ELSE IF Len(inits) = 1 THEN pc = "InitializeFallback"
          ELSE CaptureState = "ErrorAborted"
    /\ (Len(inits) = 2 /\ ~inits[2].ok) =>
          /\ CaptureState = "ErrorAborted"
          /\ exit_message # ""
    /\ CaptureState \in {"Running", "Stopping", "Stopped"} =>
          /\ Len(inits) >= 1
          /\ inits[Len(inits)].ok

C4_Witness ==
    LET inits == EventsNamed("Initialize") IN
    /\ Len(inits) = 2
    /\ ~inits[1].ok
    /\ inits[2].ok
    /\ CaptureState = "Running"
    /\ pc = "GetBuffer"

(***************************************************************************)
(* C5 as stated: when a session has ended, in Stopped or in ErrorAborted,  *)
(* the stream is halted, no buffer is held and every resource of the       *)
(* session is released.                                                    *)
(***************************************************************************)
C5_ReleasedOnEveryExit ==
    CaptureState \in {"Stopped", "ErrorAborted"} =>
      /\ ~os_started
      /\ ~os_held
      /\ resources = {}

(***************************************************************************)
(* C8 as stated: once the session has negotiated its format, the           *)
(* published tag is PCM for a plain PCM or extensible PCM mix format,      *)
(* IEEE_FLOAT for a plain float or extensible float one, and Unknown for   *)
(* an extensible format of any other sub-format.                           *)
(***************************************************************************)
Negotiated == mixFormat # NoFormat /\ pc # "Negotiate"

C8_ResolvedTag ==
    Negotiated =>
      /\ mixFormat.wFormatTag \in {WAVE_FORMAT_PCM, WAVE_FORMAT_IEEE_FLOAT} =>
            _format.format_tag = mixFormat.wFormatTag
      /\ mixFormat.wFormatTag = WAVE_FORMAT_EXTENSIBLE =>
            _format.format_tag =
              (IF mixFormat.SubFormat = KSDATAFORMAT_SUBTYPE_PCM
               THEN WAVE_FORMAT_PCM
               ELSE IF mixFormat.SubFormat = KSDATAFORMAT_SUBTYPE_IEEE_FLOAT
               THEN WAVE_FORMAT_IEEE_FLOAT
               ELSE WAVE_FORMAT_UNKNOWN)

(***************************************************************************)
(* C9: once the session has negotiated its format, the published           *)
(* channels, sample rate and bits per sample are those of the mix format,  *)
(* whatever its tag and sub-format and whether or not the tag resolved.    *)
(***************************************************************************)
C9_FieldsCopied ==
    Negotiated =>
      /\ _format.channels = mixFormat.nChannels
      /\ _format.sample_rate = mixFormat.nSamplesPerSec
      /\ _format.bits_per_sample = mixFormat.wBitsPerSample

C9_Witness ==
    /\ Negotiated
    /\ mixFormat.wFormatTag = WAVE_FORMAT_EXTENSIBLE
    /\ mixFormat.SubFormat = KSDATAFORMAT_SUBTYPE_OTHER
    /\ _format.format_tag = WAVE_FORMAT_PCM
    /\ _format.sample_rate = 96000

(***************************************************************************)
(* C12: in the loop, a nonzero packet size is followed by the acquire, a   *)
(* successful acquire by one sink invocation and that by the release of    *)
(* the frame count the acquire reported; the sink is invoked only right    *)
(* after a successful acquire, a release only right after the sink         *)
(* invocation, an acquire only right after a nonzero poll, so that two     *)
(* buffers are never outstanding; and a buffer is held exactly from a      *)
(* successful acquire to its successful release.                           *)
(***************************************************************************)
HeldByTrace ==
    LET b == SelectSeq(trace, LAMBDA e : e.ok /\ e.ev \in {"GetBuffer", "ReleaseBuffer"})
    IN Len(b) > 0 /\ b[Len(b)].ev = "GetBuffer"

C12_AcquireSinkReleasePaired ==
    LET ce == CodeEvents IN
    /\ os_held = HeldByTrace
    /\ \A i \in 1..Len(ce) :
          /\ (ce[i].ev = "GetNextPacketSize" /\ ce[i].ok /\ ce[i].n > 0
                 /\ i < Len(ce)) =>
                ce[i + 1].ev = "GetBuffer"
          /\ ce[i].ev = "GetBuffer" =>
                /\ i > 1
                /\ ce[i - 1].ev = "GetNextPacketSize"
                /\ ce[i - 1].ok
                /\ ce[i - 1].n > 0
          /\ (ce[i].ev = "GetBuffer" /\ ce[i].ok) =>
                /\ i + 1 <= Len(ce) => ce[i + 1].ev = "broadcast_audio_data"
                /\ i + 2 <= Len(ce) =>
                      /\ ce[i + 2].ev = "ReleaseBuffer"
                      /\ ce[i + 2].n = ce[i].n
          /\ ce[i].ev = "broadcast_audio_data" =>
                /\ i > 1
                /\ ce[i - 1].ev = "GetBuffer"
                /\ ce[i - 1].ok
          /\ ce[i].ev = "ReleaseBuffer" =>
                /\ i > 2
                /\ ce[i - 1].ev = "broadcast_audio_data"
                /\ ce[i - 2].ev = "GetBuffer"

C12_Witness ==
    /\ Numbers(OkEvents("GetBuffer")) = <<480, 960>>
    /\ Numbers(OkEvents("ReleaseBuffer")) = <<480, 960>>
    /\ Len(EventsNamed("broadcast_audio_data")) = 2
    /\ ~os_held

(***************************************************************************)
(* C13: a failed acquire or release is the last thing its session does and *)
(* leaves it in ErrorAborted: after a failed acquire there is no sink      *)
(* invocation and no release, after either failure no tick, poll, acquire  *)
(* or sink invocation; and from ErrorAborted nothing moves any more, so no *)
(* session is started again.                                               *)
(***************************************************************************)
BufferCallFailedLast ==
    \A i \in 1..Len(trace) :
       (trace[i].ev \in {"GetBuffer", "ReleaseBuffer"} /\ ~trace[i].ok) =>
         /\ i = Len(trace)
         /\ CaptureState = "ErrorAborted"
         /\ exited

C13_BufferFailureAborts ==
    /\ []BufferCallFailedLast
    /\ [][CaptureState = "ErrorAborted" => UNCHANGED <<captureVars, exited>>]_vars

C13_Witness ==
    /\ CaptureState = "ErrorAborted"
    /\ Len(OkEvents("ReleaseBuffer")) = 1
    /\ trace[Len(trace)].ev = "GetBuffer"
    /\ ~trace[Len(trace)].ok

(***************************************************************************)
(* C14: a session that left its loop without a failed call has halted the  *)
(* stream with one Stop call, which is the last thing it did: in Stopped   *)
(* the trace ends with its only Stop, the stream is not started and no     *)
(* buffer is held; and Stop is called nowhere else.                        *)
(***************************************************************************)
C14_StoppedTerminal ==
    LET stops == {i \in 1..Len(trace) : trace[i].ev = "Stop"} IN
    /\ Cardinality(stops) <= 1
    /\ \A i \in stops : i = Len(trace) /\ CaptureState = "Stopped"
    /\ CaptureState = "Stopped" =>
          /\ stops # {}
          /\ ~os_started
          /\ ~os_held

C14_Witness ==
    /\ CaptureState = "Stopped"
    /\ Len(EventsNamed("tick")) = 2
    /\ Len(EventsNamed("broadcast_audio_data")) = 2
    /\ Len(EventsNamed("Stop")) = 1
    /\ trace[Len(trace)].ev = "Stop"

(***************************************************************************)
(* C15: a session calls Initialize at most twice, the first time with the  *)
(* loopback flag and a second time only after the first was rejected, then *)
(* with the same format and share mode and the event-callback flag; a      *)
(* failure of any other OS call is the last event of its session, so no    *)
(* other call is attempted again.                                          *)
(***************************************************************************)
C15_SingleFallback ==
    LET inits == EventsNamed("Initialize") IN
    /\ Len(inits) <= 2
    /\ Len(inits) >= 1 =>
          /\ inits[1].flags = AUDCLNT_STREAMFLAGS_LOOPBACK
          /\ inits[1].format = pCaptureFormat
    /\ Len(inits) = 2 =>
          /\ ~inits[1].ok
          /\ inits[2].flags = AUDCLNT_STREAMFLAGS_EVENTCALLBACK
          /\ inits[2].format = inits[1].format
          /\ inits[2].share = inits[1].share
          /\ inits[2].hnsBufferDuration = inits[1].hnsBufferDuration
    /\ \A i \in 1..Len(trace) :
          (~trace[i].ok /\ trace[i].ev \notin {"Initialize", "tick", "check"}) =>
            i = Len(trace) /\ exited

C15_Witness ==
    LET inits == EventsNamed("Initialize") IN
    /\ Len(inits) = 2
    /\ inits[2].ok
    /\ mixFormat.wFormatTag = WAVE_FORMAT_EXTENSIBLE
    /\ inits[2].format.wFormatTag = WAVE_FORMAT_IEEE_FLOAT
    /\ CaptureState = "Running"
    /\ Len(OkEvents("ReleaseBuffer")) = 1

(***************************************************************************)
(* The device period is queried at most once in a session, before the      *)
(* first Initialize, and a session in its loop has queried it.             *)
(***************************************************************************)
PeriodQueriedOnce ==
    LET q == {i \in 1..Len(trace) : trace[i].ev = "GetDevicePeriod"}
        inits == {i \in 1..Len(trace) : trace[i].ev = "Initialize"}
    IN /\ Cardinality(q) <= 1
       /\ \A i \in q : \A j \in inits : i < j
       /\ pc \in LoopPcs =>
             /\ Len(OkEvents("GetDevicePeriod")) = 1
             /\ OkEvents("GetDevicePeriod")[1].n = hnsMinimumDevicePeriod

(***************************************************************************)
(* C16 as stated: the device period is queried once, during Initializing,  *)
(* and the k-th tick's deadline is k device periods after the loop start   *)
(* (both sides in units of 100 ns).                                        *)
(***************************************************************************)
C16_TickEveryDevicePeriod ==
    LET t == EventsNamed("tick") IN
    /\ PeriodQueriedOnce
    /\ \A k \in 1..Len(t) :
          t[k].n * REFTIMES_PER_MILLISEC = k * hnsMinimumDevicePeriod

(***************************************************************************)
(* C16: the device period is queried once, during Initializing, and the    *)
(* k-th tick's deadline is k times the device period truncated to whole    *)
(* milliseconds after the loop start; each deadline is the previous one    *)
(* plus that interval, whatever the tick's work was.                       *)
(***************************************************************************)
C16_TickEveryWholeMilliseconds ==
    LET t == EventsNamed("tick") IN
    /\ PeriodQueriedOnce
    /\ pc \in LoopPcs =>
          /\ duration = hnsMinimumDevicePeriod \div REFTIMES_PER_MILLISEC
          /\ expiry = Len(t) * duration
    /\ \A k \in 1..Len(t) :
          t[k].n = k * (hnsMinimumDevicePeriod \div REFTIMES_PER_MILLISEC)

C16_Witness ==
    /\ hnsMinimumDevicePeriod = 26667
    /\ Numbers(EventsNamed("tick")) = <<2, 4, 6>>
    /\ Len(EventsNamed("broadcast_audio_data")) = 2
    /\ Len(EventsNamed("GetDevicePeriod")) = 1

(***************************************************************************)
(* How a step takes a session out of Running.                              *)
(***************************************************************************)
LeavesRunning == CaptureState = "Running" /\ CaptureState' # "Running"

StopObserved ==
    /\ pc = "CheckStop"
    /\ _stoppped
    /\ CaptureState' = "Stopping"

AudioCallFailed ==
    /\ CaptureState' = "ErrorAborted"
    /\ Len(trace') = Len(trace) + 1
    /\ ~trace'[Len(trace')].ok
    /\ trace'[Len(trace')].ev \notin {"tick", "check", "stop_set"}

TimerWaitFailed ==
    /\ pc = "Wait"
    /\ CaptureState' = "Stopping"
    /\ Len(trace') = Len(trace) + 1
    /\ trace'[Len(trace')].ev = "tick"
    /\ ~trace'[Len(trace')].ok

(***************************************************************************)
(* C17 as stated: a session leaves Running only by reading the stop flag   *)
(* set, to Stopping, or by a failed OS audio call, to ErrorAborted.        *)
(***************************************************************************)
C17_LeavesOnStopOrFailureOnly ==
    [][LeavesRunning => (StopObserved \/ AudioCallFailed)]_vars

(***************************************************************************)
(* C17: a session leaves Running only by reading the stop flag set or by   *)
(* a timer wait error, both to Stopping, or by a failed OS audio call, to  *)
(* ErrorAborted.                                                           *)
(***************************************************************************)
C17_LeavesOnStopTimerErrorOrFailure ==
    [][LeavesRunning => (StopObserved \/ TimerWaitFailed \/ AudioCallFailed)]_vars

C17_Witness ==
    /\ CaptureState = "Stopped"
    /\ ~_stoppped
    /\ StopSetIndices = {}
    /\ Len(EventsNamed("tick")) = 2
    /\ Len(OkEvents("tick")) = 1
    /\ Len(EventsNamed("broadcast_audio_data")) = 1
    /\ \A i \in 1..Len(trace) : trace[i].ok \/ trace[i].ev \in {"tick", "check"}

(***************************************************************************)
(* C18: the stream is started whenever the session is in its loop or       *)
(* holds a buffer; every tick, poll, acquire, sink invocation and release  *)
(* comes after the successful Start and before any Stop; Start is called   *)
(* after a successful Initialize; and Stop is called after the successful  *)
(* Start, with every acquired buffer released.                             *)
(***************************************************************************)
StreamEvents ==
    {"tick", "GetNextPacketSize", "GetBuffer", "broadcast_audio_data", "ReleaseBuffer"}

C18_OnlyWhileStarted ==
    LET at(name, ok) == {i \in 1..Len(trace) : trace[i].ev = name /\ trace[i].ok = ok}
        started == at("Start", TRUE)
        stopped == at("Stop", TRUE)
    IN /\ pc \in LoopPcs \cup {"TimerInit", "Stop"} => os_started
       /\ os_held => os_started
       /\ \A i \in 1..Len(trace) :
             /\ trace[i].ev \in StreamEvents =>
                   /\ \E j \in started : j < i
                   /\ \A j \in stopped : i < j
             /\ trace[i].ev = "Start" =>
                   \E j \in at("Initialize", TRUE) : j < i
             /\ trace[i].ev = "Stop" =>
                   /\ \E j \in started : j < i
                   /\ Cardinality({j \in at("GetBuffer", TRUE) : j < i})
                        = Cardinality({j \in at("ReleaseBuffer", TRUE) : j < i})

C18_Witness ==
    /\ CaptureState = "Stopped"
    /\ Len(EventsNamed("Initialize")) = 2
    /\ Len(OkEvents("Start")) = 1
    /\ Len(OkEvents("GetBuffer")) = 2
    /\ Len(OkEvents("ReleaseBuffer")) = 2
    /\ Len(EventsNamed("Stop")) = 1

(***************************************************************************)
(* C19 as stated: the published format is a function of the session's      *)
(* native format alone.  A first session on a new audio_manager is one     *)
(* history ending with a given native format, so the function is the       *)
(* format such a session publishes: after any history, once the session    *)
(* has negotiated, _format is what set_format makes of the native format   *)
(* starting from the default AudioFormat.                                  *)
(***************************************************************************)
PublishedByFirstSession(format) == set_format(DefaultFormat, HandleExtensible(format))

C19_FormatOfLastSessionOnly ==
    Negotiated => _format = PublishedByFirstSession(mixFormat)

====
